---- MODULE Spec2Model ----
(***************************************************************************)
(* Transcription job lifecycle of the audio transcription app:             *)
(* TranscriptionService (transcribe / cancel / initialize / runInference), *)
(* the parts of ModelManager and AudioService it awaits, and the file      *)
(* system those collaborators read.                                        *)
(*                                                                         *)
(* Granularity: one action per run-to-completion segment of the JavaScript *)
(* event loop.  A segment starts when a call is made or when a timer or an *)
(* I/O promise the code awaits (FileSystem.getInfoAsync, setTimeout)       *)
(* resolves, and runs to the next such await.  Awaits on promises of async *)
(* functions that complete in the same segment (await this.runInference(), *)
(* await this.initialize()) continue in the same segment.                  *)
(***************************************************************************)
EXTENDS Integers, Sequences, FiniteSets, TLC

(***************************************************************************)
(* Bounds of the model                                                     *)
(***************************************************************************)
\* number of transcribe() calls issued on the service
MaxCalls == 2
\* number of distinct values Math.random() selects among the mock results
MaxRandomIndex == 2
\* longest raw inference text handed to postProcessTranscription
MaxRawLen == 3
\* direct initialize() calls
MaxInitCalls == 3
\* downloadModel() calls
MaxDownloads == 2
\* deleteModel() calls
MaxDeletes == 2
\* StorageService calls
MaxStorageCalls == 2

(***************************************************************************)
(* Strings are sequences of one-character strings, so that trim, includes, *)
(* endsWith and toUpperCase are computed on the characters.                *)
(***************************************************************************)

AlreadyInProgressMsg ==
  <<"T","r","a","n","s","c","r","i","p","t","i","o","n"," ","a","l","r","e",
    "a","d","y"," ","i","n"," ","p","r","o","g","r","e","s","s">>

\* variant: the message of the error preprocessAudioForWhisper caught
\* ('Audio file does not exist'), as if it were rethrown unchanged
PreprocessFailedMsg_Original ==
  <<"A","u","d","i","o"," ","f","i","l","e"," ","d","o","e","s"," ","n","o",
    "t"," ","e","x","i","s","t">>

PreprocessFailedMsg ==
  <<"F","a","i","l","e","d"," ","t","o"," ","p","r","e","p","r","o","c","e",
    "s","s"," ","a","u","d","i","o"," ","f","o","r"," ","t","r","a","n","s",
    "c","r","i","p","t","i","o","n">>

MODEL_NOT_FOUND ==
  <<"A","I"," ","m","o","d","e","l"," ","n","o","t"," ","f","o","u","n","d",
    "."," ","P","l","e","a","s","e"," ","d","o","w","n","l","o","a","d"," ",
    "i","t"," ","f","r","o","m"," ","S","e","t","t","i","n","g","s",".">>

TRANSCRIPTION_FAILED ==
  <<"T","r","a","n","s","c","r","i","p","t","i","o","n"," ","f","a","i","l",
    "e","d","."," ","P","l","e","a","s","e"," ","t","r","y"," ","w","i","t",
    "h"," ","a"," ","s","h","o","r","t","e","r"," ","a","u","d","i","o"," ",
    "c","l","i","p",".">>

LoadFailedMsg ==
  <<"F","a","i","l","e","d"," ","t","o"," ","l","o","a","d"," ","A","I"," ",
    "m","o","d","e","l">>

CancelledMsg ==
  <<"T","r","a","n","s","c","r","i","p","t","i","o","n"," ","c","a","n","c",
    "e","l","l","e","d">>

WasCancelledMsg ==
  <<"T","r","a","n","s","c","r","i","p","t","i","o","n"," ","w","a","s"," ",
    "c","a","n","c","e","l","l","e","d">>

MemoryMsg ==
  <<"I","n","s","u","f","f","i","c","i","e","n","t"," ","m","e","m","o","r",
    "y"," ","f","o","r"," ","t","r","a","n","s","c","r","i","p","t","i","o",
    "n","."," ","T","r","y"," ","w","i","t","h"," ","a"," ","s","h","o","r",
    "t","e","r"," ","a","u","d","i","o"," ","c","l","i","p",".">>

AudioFormatMsg ==
  <<"A","u","d","i","o"," ","f","o","r","m","a","t"," ","n","o","t"," ","s",
    "u","p","p","o","r","t","e","d","."," ","P","l","e","a","s","e"," ","r",
    "e","c","o","r","d"," ","a","u","d","i","o"," ","a","g","a","i","n",
    ".">>

NoSpeechMsg ==
  <<"N","o"," ","s","p","e","e","c","h"," ","d","e","t","e","c","t","e","d",
    " ","i","n"," ","t","h","e"," ","a","u","d","i","o",".">>

mockTranscription0 ==
  <<"T","h","i","s"," ","i","s"," ","a"," ","s","a","m","p","l","e"," ","t",
    "r","a","n","s","c","r","i","p","t","i","o","n"," ","o","f"," ","t","h",
    "e"," ","r","e","c","o","r","d","e","d"," ","a","u","d","i","o",".">>

mockTranscription1 ==
  <<"H","e","l","l","o",","," ","t","h","i","s"," ","i","s"," ","a"," ","t",
    "e","s","t"," ","r","e","c","o","r","d","i","n","g"," ","f","o","r"," ",
    "t","h","e"," ","a","u","d","i","o"," ","t","r","a","n","s","c","r","i",
    "p","t","i","o","n"," ","a","p","p",".">>

mockTranscription2 ==
  <<"T","h","e"," ","w","e","a","t","h","e","r"," ","i","s"," ","n","i","c",
    "e"," ","t","o","d","a","y"," ","a","n","d"," ","I","'","m"," ","t","e",
    "s","t","i","n","g"," ","t","h","e"," ","t","r","a","n","s","c","r","i",
    "p","t","i","o","n"," ","f","e","a","t","u","r","e",".">>

mockTranscription3 ==
  <<"T","h","i","s"," ","i","s"," ","a"," ","d","e","m","o","n","s","t","r",
    "a","t","i","o","n"," ","o","f"," ","t","h","e"," ","o","n","-","d","e",
    "v","i","c","e"," ","s","p","e","e","c","h"," ","r","e","c","o","g","n",
    "i","t","i","o","n"," ","c","a","p","a","b","i","l","i","t","i","e","s",
    ".">>

mockTranscription4 ==
  <<"W","e","l","c","o","m","e"," ","t","o"," ","t","h","e"," ","a","u","d",
    "i","o"," ","t","r","a","n","s","c","r","i","p","t","i","o","n"," ","a",
    "p","p"," ","p","o","w","e","r","e","d"," ","b","y"," ","E","x","e","c",
    "u","T","o","r","c","h"," ","a","n","d"," ","W","h","i","s","p","e","r",
    ".">>

mockTranscriptions ==
  <<mockTranscription0, mockTranscription1, mockTranscription2,
    mockTranscription3, mockTranscription4>>
(***************************************************************************)
(* String helpers (String.prototype.includes / endsWith / trim /           *)
(* toUpperCase)                                                            *)
(***************************************************************************)
includes(s, sub) ==
  \E i \in 0..(Len(s) - Len(sub)) : SubSeq(s, i + 1, i + Len(sub)) = sub

endsWith(s, suffix) ==
  /\ Len(s) >= Len(suffix)
  /\ SubSeq(s, Len(s) - Len(suffix) + 1, Len(s)) = suffix

WhiteSpace == {" ", "\t", "\n", "\r"}

trim(s) ==
  LET keep == {i \in 1..Len(s) : s[i] \notin WhiteSpace}
  IN  IF keep = {} THEN <<>>
      ELSE LET first == CHOOSE i \in keep : \A k \in keep : i <= k
               last  == CHOOSE i \in keep : \A k \in keep : i >= k
           IN  SubSeq(s, first, last)

LowerCase ==
  <<"a","b","c","d","e","f","g","h","i","j","k","l","m",
    "n","o","p","q","r","s","t","u","v","w","x","y","z">>

UpperCase ==
  <<"A","B","C","D","E","F","G","H","I","J","K","L","M",
    "N","O","P","Q","R","S","T","U","V","W","X","Y","Z">>

toUpperCase(c) ==
  IF \E i \in 1..26 : LowerCase[i] = c
  THEN UpperCase[CHOOSE i \in 1..26 : LowerCase[i] = c]
  ELSE c

\* variant: '?' is not taken as terminal punctuation
postProcessTranscription_NoQuestionMark(rawTranscription) ==
  LET processed == trim(rawTranscription)
  IN  IF Len(processed) = 0 THEN NoSpeechMsg
      ELSE LET capitalized ==
                 <<toUpperCase(processed[1])>> \o SubSeq(processed, 2, Len(processed))
           IN  IF /\ ~endsWith(capitalized, <<".">>)
                  /\ ~endsWith(capitalized, <<"!">>)
               THEN capitalized \o <<".">>
               ELSE capitalized

postProcessTranscription(rawTranscription) ==
  LET processed == trim(rawTranscription)
  IN  IF Len(processed) = 0 THEN NoSpeechMsg
      ELSE LET capitalized ==
                 <<toUpperCase(processed[1])>> \o SubSeq(processed, 2, Len(processed))
           IN  IF /\ ~endsWith(capitalized, <<".">>)
                  /\ ~endsWith(capitalized, <<"!">>)
                  /\ ~endsWith(capitalized, <<"?">>)
               THEN capitalized \o <<".">>
               ELSE capitalized

(***************************************************************************)
(* createTranscriptionError: classification of a thrown error by the       *)
(* substrings of its message, in the order of the source.                  *)
(***************************************************************************)
NoResult == [kind |-> "none", code |-> "", message |-> <<>>, details |-> <<>>, text |-> <<>>]

TextResult(t) ==
  [kind |-> "text", code |-> "", message |-> <<>>, details |-> <<>>, text |-> t]

ErrorResult(c, m, d) ==
  [kind |-> "error", code |-> c, message |-> m, details |-> d, text |-> <<>>]

createTranscriptionError(msg) ==
  IF includes(msg, <<"c","a","n","c","e","l","l","e","d">>)
  THEN ErrorResult("INFERENCE_ERROR", WasCancelledMsg, msg)
  ELSE IF includes(msg, <<"m","o","d","e","l">>)
  THEN ErrorResult("MODEL_NOT_FOUND", MODEL_NOT_FOUND, msg)
  ELSE IF \/ includes(msg, <<"m","e","m","o","r","y">>)
          \/ includes(msg, <<"M","e","m","o","r","y">>)
  THEN ErrorResult("MEMORY_ERROR", MemoryMsg, msg)
  ELSE IF \/ includes(msg, <<"a","u","d","i","o">>)
          \/ includes(msg, <<"f","o","r","m","a","t">>)
  THEN ErrorResult("AUDIO_FORMAT_ERROR", AudioFormatMsg, msg)
  ELSE ErrorResult("INFERENCE_ERROR", TRANSCRIPTION_FAILED, msg)

(***************************************************************************)
(* Timing of runInference, in milliseconds                                 *)
(***************************************************************************)
SampleRate == 16000
PreprocessedSamples == 16000
MinEstimatedTime == 2000
PollInterval == 200

Max(a, b) == IF a >= b THEN a ELSE b
Min(a, b) == IF a <= b THEN a ELSE b

estimatedTime ==
  Max(MinEstimatedTime, (PreprocessedSamples * 1000) \div SampleRate)

\* variant: the ramp is scaled to end at 100 on the last poll
inferenceProgress_RampTo100(elapsed) ==
  Min(100, 50 + (elapsed * 50) \div (estimatedTime - PollInterval))

\* Math.min(90, 50 + (elapsed / estimatedTime) * 40)
inferenceProgress(elapsed) ==
  Min(90, 50 + (elapsed * 40) \div estimatedTime)

(***************************************************************************)
(* State                                                                   *)
(***************************************************************************)
VARIABLES
  isInitialized,     \* TranscriptionService.isInitialized
  isTranscribing,    \* TranscriptionService.isTranscribing
  currentProgress,   \* TranscriptionService.currentProgress (Null or a snapshot)
  abortController,   \* TranscriptionService.abortController: NoController or
                     \* the AbortController of a call, with its signal.aborted
  modelFile,         \* the model file exists with size > 0
  call,              \* the transcribe() calls: position, outcome
  hist,              \* per call: the snapshots it published, and the stage it
                     \* was in when cancel() was called during it
  modelEver,         \* the model file has existed at some time
  decode,            \* a raw inference text and what postProcessTranscription
                     \* makes of it
  fault,             \* an error thrown during model load or inference and
                     \* what transcribe() rejects with
  initCall,          \* the direct initialize() calls: position, outcome
  loadModelCalls,    \* number of modelManager.loadModel() calls made by
                     \* initialize()
  modelManager,      \* ModelManager: isDownloading, downloadProgress,
                     \* modelInfo (null or not), modelInfo.isDownloaded
  asyncStorage,      \* AsyncStorage: the keys ModelManager writes
  download,          \* the downloadModel() calls: position, outcome
  removal,           \* the deleteModel() calls: position, outcome
  modelCalls,        \* the ModelManager calls so far: which of downloadModel
                     \* and deleteModel resolved last, and whether every
                     \* call so far ran alone and resolved
  storageKeys,       \* AsyncStorage: the keys StorageService reads and writes
  audioFiles,        \* the audio files on disk, by URI
  storageCall,       \* the StorageService calls: operation, position, outcome
  storageLog,        \* the StorageService calls so far: which resolved
                     \* last, and whether every call so far ran alone
  saved              \* every item a saveTranscription() stored, newest first

\* the state of TranscriptionService and of the model file
serviceVars ==
  <<isInitialized, isTranscribing, currentProgress, abortController,
    modelFile, call, hist, modelEver>>

\* the results of transcribe(), the direct initialize() calls, ModelManager
resultVars == <<decode, fault>>
initVars == <<initCall, loadModelCalls>>
managerVars == <<modelManager, asyncStorage, download, removal, modelCalls>>

storageVars == <<storageKeys, audioFiles, storageCall, storageLog, saved>>

\* what no step of transcribe() or cancel() touches
otherVars == <<resultVars, initVars, managerVars, storageVars>>

vars == <<serviceVars, otherVars>>

\* null, for currentProgress and for abortController
Null == [stage |-> "null", progress |-> 0, message |-> ""]
NoController == [id |-> 0, aborted |-> FALSE]

\* new AbortController(), created by call j
AbortController(j) == [id |-> j, aborted |-> FALSE]

Calls == 1..MaxCalls

\* positions of a transcribe() call: not yet called, awaiting an I/O or a
\* timer, or settled
AwaitingPcs == {"preprocessing", "init_check", "load_check", "loading", "inference"}

Snapshot(stage, progress, message) ==
  [stage |-> stage, progress |-> progress, message |-> message]

InFlight(j) == call[j].pc \in AwaitingPcs

\* variant: the snapshot of the polling loop carries the label of the
\* model-loading stage
inferenceSnapshot_LoadingStage(elapsed) ==
  Snapshot("loading_model", inferenceProgress(elapsed), "Transcribing audio...")

\* the snapshot the polling loop of runInference publishes
inferenceSnapshot(elapsed) ==
  Snapshot("inference", inferenceProgress(elapsed), "Transcribing audio...")

\* the stage a call is in, as the pipeline of transcribe() names them
StageOf(j) ==
  CASE call[j].pc = "preprocessing" -> "preprocessing"
    [] call[j].pc \in {"init_check", "load_check", "loading"} -> "loading_model"
    [] call[j].pc = "inference" -> "inference"
    [] OTHER -> "none"

\* the singleton TranscriptionService after construction, no call made yet
ServiceInit ==
  /\ isInitialized = FALSE
  /\ isTranscribing = FALSE
  /\ currentProgress = Null
  /\ abortController = NoController
  /\ modelFile \in BOOLEAN
  /\ call = [j \in Calls |->
               [pc |-> "idle", accepted |-> FALSE, elapsed |-> 0,
                result |-> NoResult]]
  /\ hist = [j \in Calls |-> [pubs |-> <<>>, cancelAt |-> "none"]]
  /\ modelEver = modelFile

\* no raw text handed to postProcessTranscription, no error thrown
NoDecode == [raw |-> <<>>, text |-> <<>>, done |-> FALSE]
NoFault == [stage |-> "none", thrown |-> <<>>, result |-> NoResult]

InitCalls == 1..MaxInitCalls
DownloadCalls == 1..MaxDownloads

\* no direct initialize() call made yet
InitCallsInit ==
  /\ initCall = [i \in InitCalls |->
                   [pc |-> "idle", result |-> "none", error |-> <<>>]]
  /\ loadModelCalls = 0

DeleteCalls == 1..MaxDeletes

\* the singleton ModelManager after construction: modelInfo is null, the
\* initializeModelInfo() the constructor started awaits AsyncStorage.getItem;
\* nothing stored yet
ModelManagerInit ==
  /\ modelManager = [isDownloading |-> FALSE, downloadProgress |-> 0,
                     hasModelInfo |-> FALSE, isDownloaded |-> FALSE]
  /\ asyncStorage = [model_info |-> "none", model_downloaded |-> "none"]
  /\ download = [d \in DownloadCalls |->
                   [pc |-> "idle", i |-> 0, result |-> "none",
                    error |-> <<>>]]
  /\ removal = [r \in DeleteCalls |->
                  [pc |-> "idle", result |-> "none", error |-> <<>>]]
  /\ modelCalls = [last |-> "none", alone |-> TRUE]

StorageCalls == 1..MaxStorageCalls

\* a TranscriptionItem: its id and the URI of its audio file
Item(n) == [id |-> n, audioUri |-> n]
NoItem == Item(0)

\* the items the calls save
Items == {Item(1), Item(2)}

\* the value AsyncStorage holds under a key: nothing, a list of items, or
\* the object {lastCleanup: ...}
NoValue == [kind |-> "null", items |-> <<>>]
ListValue(list) == [kind |-> "list", items |-> list]
\* variant: the cleanup record stored as the one entry of a list
CleanupValue_InsideList ==
  [kind |-> "list", items |-> <<NoItem>>]

CleanupValue ==
  [kind |-> "cleanup", items |-> <<>>]

NoStorageCall ==
  [op |-> "none", pc |-> "idle", item |-> NoItem, id |-> 0, pending |-> <<>>,
   k |-> 0, result |-> "none", error |-> ""]

\* StorageService with the list stored earlier, the recordings of the items
\* on disk, no call made yet
StorageInit(list) ==
  /\ storageKeys = [transcriptions |-> IF list = <<>> THEN NoValue
                                       ELSE ListValue(list),
                    last_cleanup |-> NoValue]
  /\ audioFiles = {it.audioUri : it \in Items} \cup
                    {list[k].audioUri : k \in 1..Len(list)}
  /\ storageCall = [c \in StorageCalls |-> NoStorageCall]
  /\ storageLog = [last |-> "none", alone |-> TRUE]
  /\ saved = list

Init ==
  /\ ServiceInit
  /\ decode = NoDecode
  /\ fault = NoFault
  /\ InitCallsInit
  /\ ModelManagerInit
  /\ StorageInit(<<>>)

(***************************************************************************)
(* How a segment of transcribe() ends                                      *)
(***************************************************************************)
\* this.abortController?.signal.aborted
signalAborted == abortController # NoController /\ abortController.aborted

\* variant: the finally block leaves isTranscribing as it is
finallyState_KeepsTranscribing ==
  [isTranscribing |-> isTranscribing, currentProgress |-> Null,
   abortController |-> NoController]

\* the finally block of transcribe()
finallyState ==
  [isTranscribing |-> FALSE, currentProgress |-> Null, abortController |-> NoController]

\* updateProgress, for each snapshot of pubs in turn
updateProgress(cur, pubs) ==
  IF pubs = <<>> THEN cur ELSE pubs[Len(pubs)]

\* the segment published pubs and suspends at the await of position pc
Await(j, pc, pubs, elapsed) ==
  /\ call' = [call EXCEPT ![j].pc = pc, ![j].elapsed = elapsed]
  /\ hist' = [hist EXCEPT ![j].pubs = @ \o pubs]
  /\ currentProgress' = updateProgress(currentProgress, pubs)

\* the segment published pubs and the call settles with res: the catch block
\* (for an error) and the finally block run
Settle(j, res, pubs) ==
  /\ call' = [call EXCEPT ![j].pc = "done", ![j].result = res]
  /\ hist' = [hist EXCEPT ![j].pubs = @ \o pubs, ![j].cancelAt = "none"]
  /\ isTranscribing' = finallyState.isTranscribing
  /\ currentProgress' = finallyState.currentProgress
  /\ abortController' = finallyState.abortController

\* the messages of the errors the segments of transcribe() throw
ThrownBySegments ==
  {AlreadyInProgressMsg, PreprocessFailedMsg, MODEL_NOT_FOUND, LoadFailedMsg,
   CancelledMsg}

\* the TranscriptionError the catch block of transcribe() makes of each of
\* them
caughtError ==
  [msg \in ThrownBySegments |-> createTranscriptionError(msg)]

\* the text runInference returns for each of the mock results
mockResults ==
  [i \in 1..Len(mockTranscriptions) |->
     postProcessTranscription(mockTranscriptions[i])]

Throw(j, msg, pubs) == Settle(j, caughtError[msg], pubs)

Return(j, text, pubs) == Settle(j, TextResult(text), pubs)

(***************************************************************************)
(* transcribe(audioUri), up to the await of getInfoAsync in                *)
(* preprocessAudioForWhisper                                               *)
(***************************************************************************)
transcribe(j) ==
  /\ call[j].pc = "idle"
  /\ \A k \in Calls : k < j => call[k].pc # "idle"
  /\ IF isTranscribing
     THEN /\ call' = [call EXCEPT ![j].pc = "done",
                        ![j].result = caughtError[AlreadyInProgressMsg]]
          /\ isTranscribing' = finallyState.isTranscribing
          /\ currentProgress' = finallyState.currentProgress
          /\ abortController' = finallyState.abortController
          /\ UNCHANGED hist
     ELSE /\ isTranscribing' = TRUE
          /\ abortController' = AbortController(j)
          /\ currentProgress' = Snapshot("preprocessing", 10, "Preprocessing audio...")
          /\ call' = [call EXCEPT ![j].pc = "preprocessing", ![j].accepted = TRUE]
          /\ hist' = [hist EXCEPT
                        ![j].pubs = <<Snapshot("preprocessing", 10, "Preprocessing audio...")>>]
  /\ UNCHANGED <<isInitialized, modelFile, modelEver>>
  /\ UNCHANGED otherVars

(***************************************************************************)
(* runInference: entry and first test of the polling loop                  *)
(***************************************************************************)
runInference(j, pubs) ==
  IF 0 < estimatedTime /\ ~signalAborted
  THEN /\ Await(j, "inference",
                pubs \o <<inferenceSnapshot(0)>>,
                0)
       /\ UNCHANGED <<isTranscribing, abortController>>
  ELSE IF signalAborted
  THEN Throw(j, CancelledMsg, pubs)
  ELSE \E randomIndex \in 0..(Min(MaxRandomIndex, Len(mockTranscriptions)) - 1) :
         Return(j, mockResults[randomIndex + 1],
                pubs \o <<Snapshot("decoding", 90, "Processing results..."),
                          Snapshot("decoding", 100, "Transcription complete!")>>)

(***************************************************************************)
(* getInfoAsync(audioUri) resolved: rest of preprocessAudioForWhisper,     *)
(* then transcribe() up to its next await                                  *)
(***************************************************************************)
PreprocessDone(j, fileExists) ==
  /\ call[j].pc = "preprocessing"
  /\ IF ~fileExists
     THEN \* 'Audio file does not exist' is caught and rethrown
          /\ Throw(j, PreprocessFailedMsg, <<>>)
          /\ UNCHANGED isInitialized
     ELSE IF ~isInitialized
     THEN \* initialize() awaits modelManager.isModelAvailable()
          /\ Await(j, "init_check",
                   <<Snapshot("loading_model", 30, "Loading AI model...")>>, 0)
          /\ UNCHANGED <<isInitialized, isTranscribing, abortController>>
     ELSE /\ runInference(j, <<Snapshot("loading_model", 30, "Loading AI model..."),
                               Snapshot("inference", 50, "Transcribing audio...")>>)
          /\ UNCHANGED isInitialized
  /\ UNCHANGED <<modelFile, modelEver>>
  /\ UNCHANGED otherVars

(***************************************************************************)
(* initialize(): isModelAvailable() resolved                               *)
(***************************************************************************)
\* getInfoFails: FileSystem.getInfoAsync rejected; the catch returns false
isModelAvailable(getInfoFails) ==
  IF getInfoFails THEN FALSE ELSE modelFile

InitCheckDone(j, getInfoFails) ==
  /\ call[j].pc = "init_check"
  /\ IF ~isModelAvailable(getInfoFails)
     THEN Throw(j, MODEL_NOT_FOUND, <<>>)
     ELSE \* modelManager.loadModel() awaits isModelAvailable()
          /\ Await(j, "load_check", <<>>, 0)
          /\ UNCHANGED <<isTranscribing, abortController>>
  /\ UNCHANGED <<isInitialized, modelFile, modelEver>>
  /\ UNCHANGED otherVars

(***************************************************************************)
(* loadModel(): isModelAvailable() resolved                                *)
(***************************************************************************)
LoadCheckDone(j, getInfoFails) ==
  /\ call[j].pc = "load_check"
  /\ IF ~isModelAvailable(getInfoFails)
     THEN \* MODEL_NOT_FOUND is caught and rethrown as 'Failed to load AI model'
          Throw(j, LoadFailedMsg, <<>>)
     ELSE \* simulated loading time: setTimeout 1000
          /\ Await(j, "loading", <<>>, 0)
          /\ UNCHANGED <<isTranscribing, abortController>>
  /\ UNCHANGED <<isInitialized, modelFile, modelEver>>
  /\ UNCHANGED otherVars

(***************************************************************************)
(* loadModel() resolved: initialize() sets isInitialized, transcribe()     *)
(* goes on to the inference stage                                          *)
(***************************************************************************)
LoadDone(j) ==
  /\ call[j].pc = "loading"
  /\ isInitialized' = TRUE
  /\ runInference(j, <<Snapshot("inference", 50, "Transcribing audio...")>>)
  /\ UNCHANGED <<modelFile, modelEver>>
  /\ UNCHANGED otherVars

(***************************************************************************)
(* runInference: the 200 ms timer of the polling loop fired                *)
(***************************************************************************)
InferencePoll(j) ==
  /\ call[j].pc = "inference"
  /\ LET elapsed == call[j].elapsed + PollInterval
     IN  IF elapsed < estimatedTime /\ ~signalAborted
         THEN /\ Await(j, "inference",
                       <<inferenceSnapshot(elapsed)>>,
                       elapsed)
              /\ UNCHANGED <<isTranscribing, abortController>>
         ELSE IF signalAborted
         THEN Throw(j, CancelledMsg, <<>>)
         ELSE \E randomIndex \in 0..(Min(MaxRandomIndex, Len(mockTranscriptions)) - 1) :
                Return(j, mockResults[randomIndex + 1],
                       <<Snapshot("decoding", 90, "Processing results..."),
                         Snapshot("decoding", 100, "Transcription complete!")>>)
  /\ UNCHANGED <<isInitialized, modelFile, modelEver>>
  /\ UNCHANGED otherVars

(***************************************************************************)
(* cancel()                                                                *)
(***************************************************************************)
\* variant: cancel() aborts whatever the field holds, without the null test
cancelState_AbortsUnconditionally ==
  [isTranscribing |-> FALSE, currentProgress |-> Null,
   abortController |-> [abortController EXCEPT !.aborted = TRUE]]

\* the fields of the service after cancel()
cancelState ==
  [isTranscribing |-> FALSE, currentProgress |-> Null,
   abortController |-> IF abortController # NoController
                       THEN [abortController EXCEPT !.aborted = TRUE]
                       ELSE abortController]

cancel ==
  /\ abortController' = cancelState.abortController
  /\ isTranscribing' = cancelState.isTranscribing
  /\ currentProgress' = cancelState.currentProgress
  /\ hist' = [j \in Calls |->
                IF InFlight(j) /\ hist[j].cancelAt = "none"
                THEN [hist[j] EXCEPT !.cancelAt = StageOf(j)]
                ELSE hist[j]]
  /\ UNCHANGED <<isInitialized, modelFile, call, modelEver>>
  /\ UNCHANGED otherVars

(***************************************************************************)
(* The model file, as ModelManager.downloadModel writes it and             *)
(* ModelManager.deleteModel deletes it                                     *)
(***************************************************************************)
ModelFileWritten ==
  /\ ~modelFile
  /\ modelFile' = TRUE
  /\ modelEver' = TRUE
  /\ UNCHANGED <<isInitialized, isTranscribing, currentProgress,
                 abortController, call, hist>>
  /\ UNCHANGED otherVars

ModelFileDeleted ==
  /\ modelFile
  /\ modelFile' = FALSE
  /\ UNCHANGED <<isInitialized, isTranscribing, currentProgress,
                 abortController, call, hist, modelEver>>
  /\ UNCHANGED otherVars

Next ==
  \/ \E j \in Calls : transcribe(j)
  \/ \E j \in Calls, fileExists \in BOOLEAN : PreprocessDone(j, fileExists)
  \/ \E j \in Calls, getInfoFails \in BOOLEAN : InitCheckDone(j, getInfoFails)
  \/ \E j \in Calls, getInfoFails \in BOOLEAN : LoadCheckDone(j, getInfoFails)
  \/ \E j \in Calls : LoadDone(j)
  \/ \E j \in Calls : InferencePoll(j)
  \/ cancel
  \/ ModelFileWritten
  \/ ModelFileDeleted

Spec == Init /\ [][Next]_vars

(***************************************************************************)
(* Results of transcribe(): the text postProcessTranscription returns for  *)
(* a raw inference text, and the TranscriptionError the catch block of     *)
(* transcribe() makes of an error thrown while the model is loaded or      *)
(* while inference runs.                                                   *)
(***************************************************************************)
\* characters of the raw inference texts: white space, a lower-case and an
\* upper-case letter, the three terminal punctuation marks
RawAlphabet == {" ", "\n", "h", "W", ".", "!", "?"}

RawTexts == UNION {[1..n -> RawAlphabet] : n \in 0..MaxRawLen}

\* messages of errors the runtime throws when it runs out of memory
OutOfMemoryMsg ==
  <<"O","u","t"," ","o","f"," ","m","e","m","o","r","y">>

MemoryAllocationMsg ==
  <<"M","e","m","o","r","y"," ","a","l","l","o","c","a","t","i","o","n"," ",
    "f","a","i","l","e","d">>

NotEnoughMemoryMsg ==
  <<"N","o","t"," ","e","n","o","u","g","h"," ","m","e","m","o","r","y"," ",
    "t","o"," ","l","o","a","d"," ","m","o","d","e","l">>

\* message of an error of the runtime that is not about memory
RuntimeFailureMsg ==
  <<"T","e","n","s","o","r"," ","s","h","a","p","e"," ","m","i","s","m","a",
    "t","c","h">>

MemoryExhaustionMsgs == {OutOfMemoryMsg, MemoryAllocationMsg, NotEnoughMemoryMsg}

ThrownMsgs == MemoryExhaustionMsgs \cup {RuntimeFailureMsg}

FaultStages == {"loading_model", "inference"}

\* the catch block of loadModel(): whatever was thrown, a new Error
loadModelCatch(msg) == LoadFailedMsg

\* the error that reaches the catch block of transcribe(): the catch blocks
\* of initialize() and of runInference() rethrow what they caught
caughtByTranscribe(stage, msg) ==
  IF stage = "loading_model" THEN loadModelCatch(msg) ELSE msg

ResultsInit ==
  /\ ServiceInit
  /\ decode \in {[raw |-> r, text |-> <<>>, done |-> FALSE] : r \in RawTexts}
  /\ fault \in {[stage |-> st, thrown |-> m, result |-> NoResult] :
                  st \in FaultStages, m \in ThrownMsgs}
  /\ InitCallsInit
  /\ ModelManagerInit
  /\ StorageInit(<<>>)

\* transcribe(): postProcessTranscription(rawTranscription), returned as text
PostProcess ==
  /\ ~decode.done
  /\ decode' = [decode EXCEPT !.text = postProcessTranscription(decode.raw),
                              !.done = TRUE]
  /\ UNCHANGED <<serviceVars, fault, initVars, managerVars, storageVars>>

\* transcribe(): the catch block, throw this.createTranscriptionError(error)
TranscribeCatch ==
  /\ fault.result = NoResult
  /\ fault' = [fault EXCEPT
                 !.result = createTranscriptionError(
                              caughtByTranscribe(fault.stage, fault.thrown))]
  /\ UNCHANGED <<serviceVars, decode, initVars, managerVars, storageVars>>

ResultsNext ==
  \/ PostProcess
  \/ TranscribeCatch

SpecResults == ResultsInit /\ [][ResultsNext]_vars

(***************************************************************************)
(* initialize() called directly, as the screens do before the first        *)
(* transcription.  The calls may overlap: each await ends a segment.       *)
(***************************************************************************)
\* variant: initialize() without the test of isInitialized
alreadyInitialized_NotTested ==
  FALSE

\* if (this.isInitialized) return;
alreadyInitialized ==
  isInitialized

InitializeSettle(i, res, err) ==
  initCall' = [initCall EXCEPT ![i].pc = "done", ![i].result = res,
                               ![i].error = err]

\* initialize(), up to the await of modelManager.isModelAvailable()
initialize(i) ==
  /\ initCall[i].pc = "idle"
  /\ \A k \in InitCalls : k < i => initCall[k].pc # "idle"
  /\ IF alreadyInitialized
     THEN InitializeSettle(i, "resolved", <<>>)
     ELSE initCall' = [initCall EXCEPT ![i].pc = "init_check"]
  /\ UNCHANGED <<serviceVars, resultVars, loadModelCalls, managerVars, storageVars>>

\* isModelAvailable() resolved: throw MODEL_NOT_FOUND, or call loadModel(),
\* which awaits isModelAvailable() again
InitializeAvailabilityChecked(i, getInfoFails) ==
  /\ initCall[i].pc = "init_check"
  /\ IF ~isModelAvailable(getInfoFails)
     THEN /\ InitializeSettle(i, "rejected", MODEL_NOT_FOUND)
          /\ UNCHANGED loadModelCalls
     ELSE /\ initCall' = [initCall EXCEPT ![i].pc = "load_check"]
          /\ loadModelCalls' = loadModelCalls + 1
  /\ UNCHANGED <<serviceVars, resultVars, managerVars, storageVars>>

\* loadModel(): isModelAvailable() resolved: rethrow as 'Failed to load AI
\* model', or await the simulated loading time
InitializeLoadChecked(i, getInfoFails) ==
  /\ initCall[i].pc = "load_check"
  /\ IF ~isModelAvailable(getInfoFails)
     THEN InitializeSettle(i, "rejected", loadModelCatch(MODEL_NOT_FOUND))
     ELSE initCall' = [initCall EXCEPT ![i].pc = "loading"]
  /\ UNCHANGED <<serviceVars, resultVars, loadModelCalls, managerVars, storageVars>>

\* loadModel() resolved: this.isInitialized = true
InitializeLoaded(i) ==
  /\ initCall[i].pc = "loading"
  /\ isInitialized' = TRUE
  /\ InitializeSettle(i, "resolved", <<>>)
  /\ UNCHANGED <<isTranscribing, currentProgress, abortController, modelFile,
                 call, hist, modelEver>>
  /\ UNCHANGED <<resultVars, loadModelCalls, managerVars, storageVars>>

InitializeNext ==
  \/ \E i \in InitCalls : initialize(i)
  \/ \E i \in InitCalls, getInfoFails \in BOOLEAN :
       InitializeAvailabilityChecked(i, getInfoFails)
  \/ \E i \in InitCalls, getInfoFails \in BOOLEAN :
       InitializeLoadChecked(i, getInfoFails)
  \/ \E i \in InitCalls : InitializeLoaded(i)
  \/ ModelFileWritten
  \/ ModelFileDeleted

SpecInitialize == Init /\ [][InitializeNext]_vars

(***************************************************************************)
(* ModelManager: downloadModel(), deleteModel() and the initializeModelInfo *)
(* the constructor starts.  One action per segment, from the call or the   *)
(* resolution of an awaited I/O or timer to the next await.  ok is the     *)
(* outcome of the awaited I/O.                                             *)
(***************************************************************************)
DownloadInProgressMsg ==
  <<"D","o","w","n","l","o","a","d"," ","a","l","r","e","a","d","y"," ","i",
    "n"," ","p","r","o","g","r","e","s","s">>

\* ERROR_MESSAGES.MODEL_DOWNLOAD_FAILED
MODEL_DOWNLOAD_FAILED ==
  <<"F","a","i","l","e","d"," ","t","o"," ","d","o","w","n","l","o","a","d",
    " ","A","I"," ","m","o","d","e","l","."," ","P","l","e","a","s","e"," ",
    "c","h","e","c","k"," ","y","o","u","r"," ","i","n","t","e","r","n","e",
    "t"," ","c","o","n","n","e","c","t","i","o","n"," ","a","n","d"," ","t",
    "r","y"," ","a","g","a","i","n",".">>

DeleteFailedMsg ==
  <<"F","a","i","l","e","d"," ","t","o"," ","d","e","l","e","t","e"," ","m",
    "o","d","e","l">>

\* the simulated download: for (let i = 0; i <= 100; i += 10), one timer of
\* 100 ms per round
DownloadStep == 10
DownloadComplete == 100

DownloadAwaitingPcs ==
  {"dir_info", "make_dir", "progress", "write", "save_info", "save_flag"}

DownloadInFlight(d) == download[d].pc \in DownloadAwaitingPcs

DeleteAwaitingPcs == {"file_info", "delete_file", "save_info", "remove_flag"}

DeleteInFlight(r) == removal[r].pc \in DeleteAwaitingPcs

\* some downloadModel() or deleteModel() call is between its call and its end
ManagerCallInFlight ==
  \/ \E d \in DownloadCalls : DownloadInFlight(d)
  \/ \E r \in DeleteCalls : DeleteInFlight(r)

\* the record of the calls: a call starts, fails, resolves
CallStarted == [modelCalls EXCEPT !.alone = @ /\ ~ManagerCallInFlight]
CallFailed == [modelCalls EXCEPT !.alone = FALSE]
CallResolved(op) == [modelCalls EXCEPT !.last = op]

\* initializeModelInfo(): AsyncStorage.getItem(MODEL_INFO) settled; modelInfo
\* is what was stored, or the default with isDownloaded false
InitializeModelInfoDone ==
  /\ ~modelManager.hasModelInfo
  /\ modelManager' =
       [modelManager EXCEPT
          !.hasModelInfo = TRUE,
          !.isDownloaded = (asyncStorage.model_info = "isDownloaded")]
  /\ UNCHANGED <<serviceVars, resultVars, initVars, storageVars, asyncStorage, download,
                 removal, modelCalls>>

\* variant: the test of isDownloading inside the try, so that the finally
\* block runs for the rejected call
downloadRejectedState_InsideTry ==
  [modelManager EXCEPT !.isDownloading = FALSE, !.downloadProgress = 0]

\* ModelManager after a call was rejected by the test of isDownloading: the
\* throw is before the try, nothing is written
downloadRejectedState ==
  modelManager

DownloadSettle(d, res, err) ==
  download' = [download EXCEPT ![d].pc = "done", ![d].result = res,
                               ![d].error = err]

\* the finally block
downloadFinally(mm) ==
  [mm EXCEPT !.isDownloading = FALSE, !.downloadProgress = 0]

\* an awaited I/O rejected: catch, throw MODEL_DOWNLOAD_FAILED, finally
DownloadFail(d) ==
  /\ DownloadSettle(d, "rejected", MODEL_DOWNLOAD_FAILED)
  /\ modelManager' = downloadFinally(modelManager)
  /\ modelCalls' = CallFailed

\* the first round of the progress loop: i = 0
DownloadLoopEntry(d) ==
  /\ download' = [download EXCEPT ![d].pc = "progress", ![d].i = 0]
  /\ modelManager' = [modelManager EXCEPT !.downloadProgress = 0]
  /\ UNCHANGED modelCalls

\* downloadModel(), up to the await of getInfoAsync(modelsDir)
downloadModel(d) ==
  /\ download[d].pc = "idle"
  /\ \A k \in DownloadCalls : k < d => download[k].pc # "idle"
  /\ IF modelManager.isDownloading
     THEN /\ DownloadSettle(d, "rejected", DownloadInProgressMsg)
          /\ modelManager' = downloadRejectedState
          /\ modelCalls' = CallFailed
     ELSE /\ modelManager' = [modelManager EXCEPT !.isDownloading = TRUE,
                                                  !.downloadProgress = 0]
          /\ download' = [download EXCEPT ![d].pc = "dir_info"]
          /\ modelCalls' = CallStarted
  /\ UNCHANGED <<serviceVars, resultVars, initVars, storageVars, asyncStorage, removal>>

\* getInfoAsync(modelsDir) settled
DirInfoDone(d, ok, exists) ==
  /\ download[d].pc = "dir_info"
  /\ IF ~ok THEN DownloadFail(d)
     ELSE IF ~exists
     THEN /\ download' = [download EXCEPT ![d].pc = "make_dir"]
          /\ UNCHANGED <<modelManager, modelCalls>>
     ELSE DownloadLoopEntry(d)
  /\ UNCHANGED <<serviceVars, resultVars, initVars, storageVars, asyncStorage, removal>>

\* makeDirectoryAsync(modelsDir) settled
MakeDirDone(d, ok) ==
  /\ download[d].pc = "make_dir"
  /\ IF ~ok THEN DownloadFail(d) ELSE DownloadLoopEntry(d)
  /\ UNCHANGED <<serviceVars, resultVars, initVars, storageVars, asyncStorage, removal>>

\* the 100 ms timer of a round fired: next round, or after the last round
\* writeAsStringAsync(this.modelInfo!.path, ...), which throws a TypeError
\* when modelInfo is still null
DownloadTimer(d) ==
  /\ download[d].pc = "progress"
  /\ LET i == download[d].i + DownloadStep
     IN  IF i <= DownloadComplete
         THEN /\ download' = [download EXCEPT ![d].i = i]
              /\ modelManager' = [modelManager EXCEPT !.downloadProgress = i]
              /\ UNCHANGED modelCalls
         ELSE IF ~modelManager.hasModelInfo
         THEN DownloadFail(d)
         ELSE /\ download' = [download EXCEPT ![d].pc = "write", ![d].i = i]
              /\ UNCHANGED <<modelManager, modelCalls>>
  /\ UNCHANGED <<serviceVars, resultVars, initVars, storageVars, asyncStorage, removal>>

\* writeAsStringAsync(path, placeholderContent) settled: the model file
\* exists, modelInfo.isDownloaded = true, await setItem(MODEL_INFO)
WriteDone(d, ok) ==
  /\ download[d].pc = "write"
  /\ IF ~ok
     THEN /\ DownloadFail(d)
          /\ UNCHANGED <<modelFile, modelEver>>
     ELSE /\ modelFile' = TRUE
          /\ modelEver' = TRUE
          /\ modelManager' = [modelManager EXCEPT !.isDownloaded = TRUE]
          /\ download' = [download EXCEPT ![d].pc = "save_info"]
          /\ UNCHANGED modelCalls
  /\ UNCHANGED <<isInitialized, isTranscribing, currentProgress,
                 abortController, call, hist>>
  /\ UNCHANGED <<resultVars, initVars, storageVars, asyncStorage, removal>>

\* setItem(MODEL_INFO) settled: await setItem(MODEL_DOWNLOADED, 'true')
SaveInfoDone(d, ok) ==
  /\ download[d].pc = "save_info"
  /\ IF ~ok
     THEN /\ DownloadFail(d)
          /\ UNCHANGED asyncStorage
     ELSE /\ asyncStorage' =
               [asyncStorage EXCEPT
                  !.model_info = IF modelManager.isDownloaded
                                 THEN "isDownloaded" ELSE "notDownloaded"]
          /\ download' = [download EXCEPT ![d].pc = "save_flag"]
          /\ UNCHANGED <<modelManager, modelCalls>>
  /\ UNCHANGED <<serviceVars, resultVars, initVars, storageVars, removal>>

\* setItem(MODEL_DOWNLOADED) settled: the call resolves, finally
SaveFlagDone(d, ok) ==
  /\ download[d].pc = "save_flag"
  /\ IF ~ok
     THEN /\ DownloadFail(d)
          /\ UNCHANGED asyncStorage
     ELSE /\ asyncStorage' = [asyncStorage EXCEPT !.model_downloaded = "true"]
          /\ DownloadSettle(d, "resolved", <<>>)
          /\ modelManager' = downloadFinally(modelManager)
          /\ modelCalls' = CallResolved("downloadModel")
  /\ UNCHANGED <<serviceVars, resultVars, initVars, storageVars, removal>>

\* getDownloadProgress(), isDownloadingModel()
getDownloadProgress == modelManager.downloadProgress
isDownloadingModel == modelManager.isDownloading

DownloadNext ==
  \/ InitializeModelInfoDone
  \/ \E d \in DownloadCalls : downloadModel(d)
  \/ \E d \in DownloadCalls, ok \in BOOLEAN, exists \in BOOLEAN :
       DirInfoDone(d, ok, exists)
  \/ \E d \in DownloadCalls, ok \in BOOLEAN : MakeDirDone(d, ok)
  \/ \E d \in DownloadCalls : DownloadTimer(d)
  \/ \E d \in DownloadCalls, ok \in BOOLEAN : WriteDone(d, ok)
  \/ \E d \in DownloadCalls, ok \in BOOLEAN : SaveInfoDone(d, ok)
  \/ \E d \in DownloadCalls, ok \in BOOLEAN : SaveFlagDone(d, ok)

SpecDownload == Init /\ [][DownloadNext]_vars

(***************************************************************************)
(* ModelManager.deleteModel()                                              *)
(***************************************************************************)
DeleteSettle(r, res, err) ==
  removal' = [removal EXCEPT ![r].pc = "done", ![r].result = res,
                             ![r].error = err]

\* an awaited I/O rejected: catch, throw 'Failed to delete model'
DeleteFail(r) ==
  /\ DeleteSettle(r, "rejected", DeleteFailedMsg)
  /\ modelCalls' = CallFailed

\* modelInfo = {...modelInfo, isDownloaded: false}, await setItem(MODEL_INFO)
DeleteUpdateInfo(r) ==
  /\ modelManager' = [modelManager EXCEPT !.isDownloaded = FALSE]
  /\ removal' = [removal EXCEPT ![r].pc = "save_info"]
  /\ UNCHANGED modelCalls

\* deleteModel(): return when modelInfo is null, else await
\* getInfoAsync(modelInfo.path)
deleteModel(r) ==
  /\ removal[r].pc = "idle"
  /\ \A k \in DeleteCalls : k < r => removal[k].pc # "idle"
  /\ IF ~modelManager.hasModelInfo
     THEN /\ DeleteSettle(r, "resolved", <<>>)
          /\ modelCalls' = [CallStarted EXCEPT !.last = "deleteModel"]
     ELSE /\ removal' = [removal EXCEPT ![r].pc = "file_info"]
          /\ modelCalls' = CallStarted
  /\ UNCHANGED <<serviceVars, resultVars, initVars, storageVars, modelManager,
                 asyncStorage, download>>

\* getInfoAsync(path) settled: await deleteAsync(path) if the file exists
DeleteFileInfoDone(r, ok) ==
  /\ removal[r].pc = "file_info"
  /\ IF ~ok
     THEN /\ DeleteFail(r)
          /\ UNCHANGED modelManager
     ELSE IF modelFile
     THEN /\ removal' = [removal EXCEPT ![r].pc = "delete_file"]
          /\ UNCHANGED <<modelManager, modelCalls>>
     ELSE DeleteUpdateInfo(r)
  /\ UNCHANGED <<serviceVars, resultVars, initVars, storageVars, asyncStorage, download>>

\* deleteAsync(path) settled: the model file is gone
DeleteFileDone(r, ok) ==
  /\ removal[r].pc = "delete_file"
  /\ IF ~ok
     THEN /\ DeleteFail(r)
          /\ UNCHANGED <<modelManager, modelFile>>
     ELSE /\ modelFile' = FALSE
          /\ DeleteUpdateInfo(r)
  /\ UNCHANGED <<isInitialized, isTranscribing, currentProgress,
                 abortController, call, hist, modelEver>>
  /\ UNCHANGED <<resultVars, initVars, storageVars, asyncStorage, download>>

\* setItem(MODEL_INFO) settled: await removeItem(MODEL_DOWNLOADED)
DeleteSaveInfoDone(r, ok) ==
  /\ removal[r].pc = "save_info"
  /\ IF ~ok
     THEN /\ DeleteFail(r)
          /\ UNCHANGED asyncStorage
     ELSE /\ asyncStorage' =
               [asyncStorage EXCEPT
                  !.model_info = IF modelManager.isDownloaded
                                 THEN "isDownloaded" ELSE "notDownloaded"]
          /\ removal' = [removal EXCEPT ![r].pc = "remove_flag"]
          /\ UNCHANGED modelCalls
  /\ UNCHANGED <<serviceVars, resultVars, initVars, storageVars, modelManager, download>>

\* removeItem(MODEL_DOWNLOADED) settled: the call resolves
DeleteRemoveFlagDone(r, ok) ==
  /\ removal[r].pc = "remove_flag"
  /\ IF ~ok
     THEN /\ DeleteFail(r)
          /\ UNCHANGED asyncStorage
     ELSE /\ asyncStorage' = [asyncStorage EXCEPT !.model_downloaded = "none"]
          /\ DeleteSettle(r, "resolved", <<>>)
          /\ modelCalls' = CallResolved("deleteModel")
  /\ UNCHANGED <<serviceVars, resultVars, initVars, storageVars, modelManager, download>>

ModelManagerNext ==
  \/ InitializeModelInfoDone
  \/ \E d \in DownloadCalls : downloadModel(d)
  \/ \E d \in DownloadCalls, ok \in BOOLEAN, exists \in BOOLEAN :
       DirInfoDone(d, ok, exists)
  \/ \E d \in DownloadCalls, ok \in BOOLEAN : MakeDirDone(d, ok)
  \/ \E d \in DownloadCalls : DownloadTimer(d)
  \/ \E d \in DownloadCalls, ok \in BOOLEAN : WriteDone(d, ok)
  \/ \E d \in DownloadCalls, ok \in BOOLEAN : SaveInfoDone(d, ok)
  \/ \E d \in DownloadCalls, ok \in BOOLEAN : SaveFlagDone(d, ok)
  \/ \E r \in DeleteCalls : deleteModel(r)
  \/ \E r \in DeleteCalls, ok \in BOOLEAN : DeleteFileInfoDone(r, ok)
  \/ \E r \in DeleteCalls, ok \in BOOLEAN : DeleteFileDone(r, ok)
  \/ \E r \in DeleteCalls, ok \in BOOLEAN : DeleteSaveInfoDone(r, ok)
  \/ \E r \in DeleteCalls, ok \in BOOLEAN : DeleteRemoveFlagDone(r, ok)

SpecModelManager == Init /\ [][ModelManagerNext]_vars

(***************************************************************************)
(* StorageService: saveTranscription, deleteTranscription, clearAllData,   *)
(* one action per segment; getTranscriptions and getStorageInfo as what    *)
(* they return in a state.  The AsyncStorage and FileSystem calls resolve: *)
(* a getItem that rejects is not among the inputs.                         *)
(***************************************************************************)
\* const MAX_ITEMS = 1000
MAX_ITEMS == 1000

\* variant: saveTranscription without the limit
capped_NoLimit(list) ==
  list

\* if (updated.length > MAX_ITEMS) updated.splice(MAX_ITEMS)
capped(list) ==
  IF Len(list) > MAX_ITEMS THEN SubSeq(list, 1, MAX_ITEMS) ELSE list

\* getTranscriptions(): [] when nothing is stored; JSON.parse of the stored
\* list; [] from the catch block when the stored value is not an array, whose
\* map is not a function
getTranscriptions(data) ==
  IF data.kind = "list" THEN data.items ELSE <<>>

\* getLastCleanupDate(): the value under 'last_cleanup', undefined when none
getLastCleanupDate ==
  IF storageKeys.last_cleanup.kind = "null" THEN "undefined" ELSE "date"

\* getStorageInfo(): the number of transcriptions and the cleanup date
getStorageInfo ==
  [totalTranscriptions |-> Len(getTranscriptions(storageKeys.transcriptions)),
   lastCleanup |-> getLastCleanupDate]

\* variant: a filter that removes the first item with the id only
RECURSIVE filterOutId_FirstOnly(_, _)
filterOutId_FirstOnly(list, id) ==
  IF list = <<>> THEN <<>>
  ELSE IF Head(list).id = id THEN Tail(list)
  ELSE <<Head(list)>> \o filterOutId_FirstOnly(Tail(list), id)

\* transcriptions.filter(item => item.id !== id)
RECURSIVE filterOutId(_, _)
filterOutId(list, id) ==
  IF list = <<>> THEN <<>>
  ELSE IF Head(list).id = id THEN filterOutId(Tail(list), id)
  ELSE <<Head(list)>> \o filterOutId(Tail(list), id)

\* transcriptions.find(item => item.id === id), of a list that has one
RECURSIVE find(_, _)
find(list, id) ==
  IF Head(list).id = id THEN Head(list) ELSE find(Tail(list), id)

StorageAwaitingPcs ==
  {"reading", "writing", "audio_info", "audio_delete", "file_info",
   "file_delete", "removing", "export_info", "export_delete", "recording"}

StorageCallInFlight == \E c \in StorageCalls : storageCall[c].pc \in StorageAwaitingPcs

\* a call is made: up to the await of AsyncStorage.getItem in
\* getTranscriptions()
StorageCallMade(c, op, item, id) ==
  /\ storageCall[c].pc = "idle"
  /\ \A e \in StorageCalls : e < c => storageCall[e].pc # "idle"
  /\ storageCall' = [storageCall EXCEPT
                       ![c] = [NoStorageCall EXCEPT !.op = op, !.pc = "reading",
                                                    !.item = item, !.id = id]]
  /\ storageLog' = [storageLog EXCEPT !.alone = @ /\ ~StorageCallInFlight]

\* the call of slot c ends
StorageCallDone(c, res, err) ==
  storageCall' = [storageCall EXCEPT
                    ![c] = [NoStorageCall EXCEPT !.op = storageCall[c].op,
                                                 !.item = storageCall[c].item,
                                                 !.id = storageCall[c].id,
                                                 !.pc = "done",
                                                 !.result = res, !.error = err]]

StorageStep(c, op, pc) == storageCall[c].op = op /\ storageCall[c].pc = pc

saveTranscription(c, item) ==
  /\ StorageCallMade(c, "save", item, 0)
  /\ UNCHANGED <<serviceVars, resultVars, initVars, managerVars, storageKeys,
                 audioFiles, saved>>

\* getItem resolved: [item, ...existing], limited to MAX_ITEMS, await setItem
SaveRead(c) ==
  /\ StorageStep(c, "save", "reading")
  /\ LET existingTranscriptions == getTranscriptions(storageKeys.transcriptions)
         updatedTranscriptions ==
           capped(<<storageCall[c].item>> \o existingTranscriptions)
     IN  storageCall' = [storageCall EXCEPT ![c].pc = "writing",
                                            ![c].pending = updatedTranscriptions]
  /\ UNCHANGED <<serviceVars, resultVars, initVars, managerVars, storageKeys,
                 audioFiles, storageLog, saved>>

\* setItem resolved: the list is stored, the call resolves
SaveWritten(c) ==
  /\ StorageStep(c, "save", "writing")
  /\ storageKeys' = [storageKeys EXCEPT
                       !.transcriptions = ListValue(storageCall[c].pending)]
  /\ StorageCallDone(c, "resolved", "")
  /\ storageLog' = [storageLog EXCEPT !.last = "saveTranscription"]
  /\ saved' = <<storageCall[c].item>> \o saved
  /\ UNCHANGED <<serviceVars, resultVars, initVars, managerVars, audioFiles>>

deleteTranscription(c, id) ==
  /\ StorageCallMade(c, "delete", NoItem, id)
  /\ UNCHANGED <<serviceVars, resultVars, initVars, managerVars, storageKeys,
                 audioFiles, saved>>

\* getItem resolved: filter; 'Transcription not found', rethrown as 'Failed
\* to delete transcription', when nothing was filtered out; else await setItem
DeleteRead(c) ==
  /\ StorageStep(c, "delete", "reading")
  /\ LET transcriptions == getTranscriptions(storageKeys.transcriptions)
         filteredTranscriptions == filterOutId(transcriptions, storageCall[c].id)
     IN  IF Len(filteredTranscriptions) = Len(transcriptions)
         THEN StorageCallDone(c, "rejected", "Failed to delete transcription")
         ELSE storageCall' =
                [storageCall EXCEPT
                   ![c].pc = "writing",
                   ![c].pending = filteredTranscriptions,
                   ![c].item = find(transcriptions, storageCall[c].id)]
  /\ UNCHANGED <<serviceVars, resultVars, initVars, managerVars, storageKeys,
                 audioFiles, storageLog, saved>>

\* setItem resolved: the filtered list is stored; await getInfoAsync of the
\* audio file of the item found
DeleteWritten(c) ==
  /\ StorageStep(c, "delete", "writing")
  /\ storageKeys' = [storageKeys EXCEPT
                       !.transcriptions = ListValue(storageCall[c].pending)]
  /\ storageCall' = [storageCall EXCEPT ![c].pc = "audio_info",
                                        ![c].pending = <<>>]
  /\ UNCHANGED <<serviceVars, resultVars, initVars, managerVars, audioFiles,
                 storageLog, saved>>

\* getInfoAsync(audioUri) resolved: await deleteAsync if the file exists,
\* else the call resolves
DeleteAudioInfo(c) ==
  /\ StorageStep(c, "delete", "audio_info")
  /\ IF storageCall[c].item.audioUri \in audioFiles
     THEN /\ storageCall' = [storageCall EXCEPT ![c].pc = "audio_delete"]
          /\ UNCHANGED storageLog
     ELSE /\ StorageCallDone(c, "resolved", "")
          /\ storageLog' = [storageLog EXCEPT !.last = "deleteTranscription"]
  /\ UNCHANGED <<serviceVars, resultVars, initVars, managerVars, storageKeys,
                 audioFiles, saved>>

\* deleteAsync(audioUri) resolved: the call resolves
DeleteAudioDeleted(c) ==
  /\ StorageStep(c, "delete", "audio_delete")
  /\ audioFiles' = audioFiles \ {storageCall[c].item.audioUri}
  /\ StorageCallDone(c, "resolved", "")
  /\ storageLog' = [storageLog EXCEPT !.last = "deleteTranscription"]
  /\ UNCHANGED <<serviceVars, resultVars, initVars, managerVars, storageKeys,
                 saved>>

clearAllData(c) ==
  /\ StorageCallMade(c, "clear", NoItem, 0)
  /\ UNCHANGED <<serviceVars, resultVars, initVars, managerVars, storageKeys,
                 audioFiles, saved>>

\* clearAllData: on to the audio file of transcription k, or after the last
\* one to removeItem(TRANSCRIPTIONS)
ClearLoop(c, list, k) ==
  IF k <= Len(list)
  THEN storageCall' = [storageCall EXCEPT ![c].pc = "file_info",
                                          ![c].pending = list, ![c].k = k]
  ELSE storageCall' = [storageCall EXCEPT ![c].pc = "removing",
                                          ![c].pending = <<>>, ![c].k = 0]

\* getItem resolved: the transcriptions whose audio files are to be deleted
ClearRead(c) ==
  /\ StorageStep(c, "clear", "reading")
  /\ ClearLoop(c, getTranscriptions(storageKeys.transcriptions), 1)
  /\ UNCHANGED <<serviceVars, resultVars, initVars, managerVars, storageKeys,
                 audioFiles, storageLog, saved>>

\* getInfoAsync of the audio file of transcription k resolved
ClearFileInfo(c) ==
  /\ StorageStep(c, "clear", "file_info")
  /\ IF storageCall[c].pending[storageCall[c].k].audioUri \in audioFiles
     THEN storageCall' = [storageCall EXCEPT ![c].pc = "file_delete"]
     ELSE ClearLoop(c, storageCall[c].pending, storageCall[c].k + 1)
  /\ UNCHANGED <<serviceVars, resultVars, initVars, managerVars, storageKeys,
                 audioFiles, storageLog, saved>>

\* deleteAsync of the audio file of transcription k resolved
ClearFileDeleted(c) ==
  /\ StorageStep(c, "clear", "file_delete")
  /\ audioFiles' = audioFiles \ {storageCall[c].pending[storageCall[c].k].audioUri}
  /\ ClearLoop(c, storageCall[c].pending, storageCall[c].k + 1)
  /\ UNCHANGED <<serviceVars, resultVars, initVars, managerVars, storageKeys,
                 storageLog, saved>>

\* removeItem(TRANSCRIPTIONS) resolved: await getInfoAsync(exportDir)
ClearRemoved(c) ==
  /\ StorageStep(c, "clear", "removing")
  /\ storageKeys' = [storageKeys EXCEPT !.transcriptions = NoValue]
  /\ storageCall' = [storageCall EXCEPT ![c].pc = "export_info"]
  /\ UNCHANGED <<serviceVars, resultVars, initVars, managerVars, audioFiles,
                 storageLog, saved>>

\* getInfoAsync(exportDir) resolved: await deleteAsync(exportDir) if it
\* exists, else await setItem(TRANSCRIPTIONS, {lastCleanup})
ClearExportInfo(c, exists) ==
  /\ StorageStep(c, "clear", "export_info")
  /\ storageCall' = [storageCall EXCEPT
                       ![c].pc = IF exists THEN "export_delete" ELSE "recording"]
  /\ UNCHANGED <<serviceVars, resultVars, initVars, managerVars, storageKeys,
                 audioFiles, storageLog, saved>>

\* deleteAsync(exportDir) resolved: await setItem(TRANSCRIPTIONS, {lastCleanup})
ClearExportDeleted(c) ==
  /\ StorageStep(c, "clear", "export_delete")
  /\ storageCall' = [storageCall EXCEPT ![c].pc = "recording"]
  /\ UNCHANGED <<serviceVars, resultVars, initVars, managerVars, storageKeys,
                 audioFiles, storageLog, saved>>

\* setItem(TRANSCRIPTIONS, {lastCleanup: ...}) resolved: the call resolves
ClearRecorded(c) ==
  /\ StorageStep(c, "clear", "recording")
  /\ storageKeys' = [storageKeys EXCEPT !.transcriptions = CleanupValue]
  /\ StorageCallDone(c, "resolved", "")
  /\ storageLog' = [storageLog EXCEPT !.last = "clearAllData"]
  /\ UNCHANGED <<serviceVars, resultVars, initVars, managerVars, audioFiles,
                 saved>>

\* the ids deleteTranscription is called with: of the items, and of none
Ids == {it.id : it \in Items} \cup {3}

\* lists stored by earlier runs of the app
StoredLists == {<<>>, <<Item(2), Item(1)>>}

StorageServiceInit ==
  /\ ServiceInit
  /\ decode = NoDecode
  /\ fault = NoFault
  /\ InitCallsInit
  /\ ModelManagerInit
  /\ \E list \in StoredLists : StorageInit(list)

StorageNext ==
  \/ \E c \in StorageCalls, item \in Items : saveTranscription(c, item)
  \/ \E c \in StorageCalls : SaveRead(c)
  \/ \E c \in StorageCalls : SaveWritten(c)
  \/ \E c \in StorageCalls, id \in Ids : deleteTranscription(c, id)
  \/ \E c \in StorageCalls : DeleteRead(c)
  \/ \E c \in StorageCalls : DeleteWritten(c)
  \/ \E c \in StorageCalls : DeleteAudioInfo(c)
  \/ \E c \in StorageCalls : DeleteAudioDeleted(c)
  \/ \E c \in StorageCalls : clearAllData(c)
  \/ \E c \in StorageCalls : ClearRead(c)
  \/ \E c \in StorageCalls : ClearFileInfo(c)
  \/ \E c \in StorageCalls : ClearFileDeleted(c)
  \/ \E c \in StorageCalls : ClearRemoved(c)
  \/ \E c \in StorageCalls, exists \in BOOLEAN : ClearExportInfo(c, exists)
  \/ \E c \in StorageCalls : ClearExportDeleted(c)
  \/ \E c \in StorageCalls : ClearRecorded(c)

SpecStorage == StorageServiceInit /\ [][StorageNext]_vars

(***************************************************************************)
(* saveTranscription at the limit: the stored list is empty or one short   *)
(* of MAX_ITEMS, and only saveTranscription is called.                     *)
(***************************************************************************)
\* MAX_ITEMS - 1 items saved earlier, newest first
NearFull == [k \in 1..(MAX_ITEMS - 1) |-> Item(MAX_ITEMS + 2 - k)]

SaveInit ==
  /\ ServiceInit
  /\ decode = NoDecode
  /\ fault = NoFault
  /\ InitCallsInit
  /\ ModelManagerInit
  /\ \E list \in {<<>>, NearFull} : StorageInit(list)

SaveNext ==
  \/ \E c \in StorageCalls, item \in Items : saveTranscription(c, item)
  \/ \E c \in StorageCalls : SaveRead(c)
  \/ \E c \in StorageCalls : SaveWritten(c)

SpecSave == SaveInit /\ [][SaveNext]_vars

(***************************************************************************)
(* Properties                                                              *)
(***************************************************************************)
\* call j is issued in this step
Issued(j) == call[j].pc = "idle" /\ call'[j].pc # "idle"

\* call j is issued in this step and rejected by the 'already in progress' guard
Rejected(j) == call[j].pc = "idle" /\ call'[j].pc = "done"

\* call j settles in this step (returns or throws)
Settles(j) == call[j].pc # "done" /\ call'[j].pc = "done"

\* call j takes a step of its own
Steps(j) == call'[j] # call[j]

Published(j, p) == \E i \in 1..Len(hist[j].pubs) : hist[j].pubs[i].progress = p

PublishedStage(j, s) == \E i \in 1..Len(hist[j].pubs) : hist[j].pubs[i].stage = s

\* the codes of TranscriptionError
FailureCodes ==
  {"MODEL_NOT_FOUND", "AUDIO_FORMAT_ERROR", "MEMORY_ERROR", "INFERENCE_ERROR",
   "PERMISSION_ERROR"}

\* C1: when a transcribe() call is rejected because another one is in flight,
\* the service still marks a job as active, the in-flight job's abort
\* controller is still installed and its published progress is not cleared.
C1_FirstCallUnaffected ==
  [][\A j \in Calls :
       Rejected(j) =>
         /\ isTranscribing'
         /\ abortController' = abortController
         /\ abortController' # NoController
         /\ currentProgress' = currentProgress
         /\ currentProgress' # Null]_vars

\* C2: at no time are two transcribe() calls both past the 'already in
\* progress' guard and both not yet settled.
C2_AtMostOneActiveJob ==
  Cardinality({j \in Calls : InFlight(j)}) <= 1

\* C3: a call that was in the inference stage when cancel() was called ends
\* at its next polling checkpoint with the cancelled outcome: it publishes no
\* further progress, never enters decoding, never publishes 100 and returns
\* no text.
C3_CancelDuringInferenceEndsCall ==
  [][\A j \in Calls :
       (hist[j].cancelAt = "inference" /\ Steps(j)) =>
         /\ call'[j].pc = "done"
         /\ call'[j].result.kind = "error"
         /\ call'[j].result.message = WasCancelledMsg
         /\ hist'[j].pubs = hist[j].pubs]_vars

\* C4: a transcribe() call rejected because a job is active fails with a kind
\* of its own (ConcurrentJobError), distinct from InferenceError and from
\* every other failure kind, and publishes no progress snapshot.
C4_RejectedWithConcurrentJobError ==
  \A j \in Calls :
    (call[j].pc = "done" /\ ~call[j].accepted) =>
      /\ call[j].result.kind = "error"
      /\ call[j].result.code \notin FailureCodes
      /\ hist[j].pubs = <<>>

\* C5: a call that ends because runInference observed the cancellation
\* carries a code that is not INFERENCE_ERROR nor any other failure code.
C5_CancelledDistinctFromFailed ==
  \A j \in Calls :
    (call[j].pc = "done" /\ call[j].result.details = CancelledMsg) =>
      call[j].result.code \notin FailureCodes

\* C6: an accepted transcribe() call made while the model is unavailable (here:
\* the model file has never existed) fails with MODEL_NOT_FOUND.
C6_UnavailableModelFailsModelNotFound ==
  \A j \in Calls :
    (call[j].pc = "done" /\ call[j].accepted /\ ~modelEver) =>
      /\ call[j].result.kind = "error"
      /\ call[j].result.code = "MODEL_NOT_FOUND"

\* C7: while the model is unavailable (the model file has never existed) no
\* call publishes a snapshot of stage 'preprocessing', i.e. none enters the
\* preprocessing stage.
C7_NoPreprocessingWithoutModel ==
  \A j \in Calls : ~modelEver => ~PublishedStage(j, "preprocessing")

\* C8: when a transcribe() call settles, in whichever way, the service holds
\* no active-job state, and a call issued while no call is in flight is
\* accepted into the pipeline.
C8_ReadyAfterEveryOutcome ==
  [][/\ \A j \in Calls :
          Settles(j) =>
            /\ ~isTranscribing'
            /\ currentProgress' = Null
            /\ abortController' = NoController
     /\ \A j \in Calls :
          (Issued(j) /\ \A k \in Calls : ~InFlight(k)) =>
            /\ call'[j].accepted
            /\ call'[j].pc = "preprocessing"]_vars

\* C8 witness: a call was accepted after an earlier call had failed
C8_Witness ==
  /\ call[1].pc = "done"
  /\ call[1].result.code = "AUDIO_FORMAT_ERROR"
  /\ call[2].pc = "preprocessing"
  /\ isTranscribing

\* C9: while a call is in flight, the progress read through getProgress()
\* does not decrease from one snapshot to the next.
C9_ObservedProgressNonDecreasing ==
  [][(/\ currentProgress # Null
      /\ currentProgress' # Null
      /\ \E j \in Calls : InFlight(j) /\ call'[j].pc \in AwaitingPcs) =>
       currentProgress'.progress >= currentProgress.progress]_vars

\* C10: a call has published a snapshot of progress 100 if and only if it
\* returned its transcription text.
C10_HundredIffCompleted ==
  \A j \in Calls : Published(j, 100) <=> call[j].result.kind = "text"

\* C10 witness: one call returned text having published 100, another failed
\* after the inference stage had begun
C10_Witness ==
  \E j, k \in Calls :
    /\ call[j].result.kind = "text"
    /\ Published(j, 100)
    /\ call[k].result.kind = "error"
    /\ PublishedStage(k, "inference")

\* the pipeline stages in their order
StageRank(s) ==
  CASE s = "preprocessing" -> 1
    [] s = "loading_model" -> 2
    [] s = "inference" -> 3
    [] s = "decoding" -> 4

\* C11: the snapshots a call has published start at preprocessing and move
\* through preprocessing, loading_model, inference, decoding in this order,
\* one stage at a time and never back; only a call that went through all of
\* them returns text, and a call that failed or was cancelled stopped at the
\* stage it had reached.
C11_StagesOnlyForward ==
  \A j \in Calls :
    LET pubs == hist[j].pubs
    IN  /\ pubs # <<>> => pubs[1].stage = "preprocessing"
        /\ \A i \in 1..(Len(pubs) - 1) :
             /\ StageRank(pubs[i + 1].stage) >= StageRank(pubs[i].stage)
             /\ StageRank(pubs[i + 1].stage) <= StageRank(pubs[i].stage) + 1
        /\ call[j].result.kind = "text" => pubs[Len(pubs)].stage = "decoding"
        /\ call[j].result.kind # "text" => ~PublishedStage(j, "decoding")

\* C11 witness: a call went through all four stages and returned text, and
\* another call failed in a stage after the first
C11_Witness ==
  \E j, k \in Calls :
    /\ call[j].result.kind = "text"
    /\ \A s \in {"preprocessing", "loading_model", "inference", "decoding"} :
         PublishedStage(j, s)
    /\ call[k].result.kind = "error"
    /\ PublishedStage(k, "loading_model")

\* C12: getProgress() is non-null exactly while the service reports a job in
\* progress.
C12_ProgressIffTranscribing ==
  (currentProgress # Null) <=> isTranscribing

\* C13: in a state where no call is in flight, cancel() leaves isTranscribing,
\* currentProgress and abortController as they are (and it writes nothing
\* else), so the service is in the same state as without the cancel().
C13_CancelWithoutJobIsNoOp ==
  (\A j \in Calls : ~InFlight(j)) =>
    cancelState = [isTranscribing |-> isTranscribing,
                   currentProgress |-> currentProgress,
                   abortController |-> abortController]

\* C13 witness: a call has settled, no call is in flight and a further call
\* can still be issued
C13_Witness ==
  /\ call[1].pc = "done"
  /\ \A j \in Calls : ~InFlight(j)
  /\ \E j \in Calls : call[j].pc = "idle"
  /\ isInitialized

\* C14: a call that was in the preprocessing or model-loading stage when
\* cancel() was called does not get past the first check of runInference: it
\* never waits in the polling loop and never returns text.
C14_CancelBeforeInferenceEndsAtFirstCheck ==
  [][\A j \in Calls :
       (hist[j].cancelAt \in {"preprocessing", "loading_model"} /\ Steps(j)) =>
         /\ call'[j].pc # "inference"
         /\ call'[j].result.kind # "text"
         /\ ~(\E i \in 1..Len(hist'[j].pubs) : hist'[j].pubs[i].stage = "decoding")]_vars

\* C16: a call that fails in the preprocessing stage (it was accepted and
\* settled without reaching the model-loading stage) fails with code
\* AUDIO_FORMAT_ERROR.
C16_PreprocessingFailureIsAudioFormatError ==
  \A j \in Calls :
    (call[j].pc = "done" /\ call[j].accepted /\ ~PublishedStage(j, "loading_model")) =>
      /\ call[j].result.kind = "error"
      /\ call[j].result.code = "AUDIO_FORMAT_ERROR"

\* C16 witness: a call failed in the preprocessing stage
C16_Witness ==
  \E j \in Calls :
    /\ call[j].pc = "done"
    /\ call[j].accepted
    /\ ~PublishedStage(j, "loading_model")
    /\ call[j].result.details = PreprocessFailedMsg

\* C17: a call that fails in the model-loading stage gets code MODEL_NOT_FOUND
\* only if the model file is missing; while the model file is present it gets
\* code INFERENCE_ERROR.
C17_LoadFailureClassification ==
  [][\A j \in Calls :
       (call[j].pc \in {"init_check", "load_check"} /\ Settles(j)) =>
         /\ call'[j].result.code = "MODEL_NOT_FOUND" => ~modelFile
         /\ modelFile => call'[j].result.code = "INFERENCE_ERROR"]_vars

TerminalPunctuation == {".", "!", "?"}

\* the trimmed text of s: the part of s between its leading and its trailing
\* white space
IsTrimmedOf(t, s) ==
  \E a \in 0..Len(s) :
    /\ a + Len(t) <= Len(s)
    /\ t = SubSeq(s, a + 1, a + Len(t))
    /\ \A i \in 1..a : s[i] \in WhiteSpace
    /\ \A i \in (a + Len(t) + 1)..Len(s) : s[i] \in WhiteSpace
    /\ t # <<>> => t[1] \notin WhiteSpace /\ t[Len(t)] \notin WhiteSpace

Pieces(s) == {SubSeq(s, a, b) : a \in 1..(Len(s) + 1), b \in 0..Len(s)}

UpperCased(c, u) ==
  /\ \A k \in 1..Len(LowerCase) : c = LowerCase[k] => u = UpperCase[k]
  /\ (\A k \in 1..Len(LowerCase) : c # LowerCase[k]) => u = c

\* C15: decoding normalization.  For every raw inference text the returned
\* text is the fixed no-speech message when the raw text is empty after
\* trimming; otherwise it is the trimmed text with its first character
\* upper-cased and '.' appended exactly when the trimmed text does not end
\* with '.', '!' or '?'.  The returned text is never empty and always ends
\* with '.', '!' or '?'.
C15_DecodingNormalization ==
  decode.done =>
    /\ decode.text # <<>>
    /\ decode.text[Len(decode.text)] \in TerminalPunctuation
    /\ \A t \in Pieces(decode.raw) :
         IsTrimmedOf(t, decode.raw) =>
           IF t = <<>>
           THEN decode.text = NoSpeechMsg
           ELSE LET ended == t[Len(t)] \in TerminalPunctuation
                    n == Len(t)
                IN  /\ Len(decode.text) = IF ended THEN n ELSE n + 1
                    /\ UpperCased(t[1], decode.text[1])
                    /\ \A i \in 2..n : decode.text[i] = t[i]
                    /\ ~ended => decode.text[n + 1] = "."
    /\ \E t \in Pieces(decode.raw) : IsTrimmedOf(t, decode.raw)

\* a raw text with leading white space, a lower-case first letter and no
\* terminal punctuation was normalized
C15_Witness ==
  /\ decode.done
  /\ decode.raw = <<" ", "h", "W">>
  /\ decode.text = <<"H", "W", ".">>

C19_InitializeIdempotent ==
  [][\A i \in InitCalls :
       (isInitialized /\ initCall[i].pc = "idle" /\ initCall'[i].pc # "idle") =>
         /\ initCall'[i] = [pc |-> "done", result |-> "resolved", error |-> <<>>]
         /\ loadModelCalls' = loadModelCalls
         /\ serviceVars' = serviceVars]_vars

\* initialize() was called again after a call had loaded the model: both
\* resolved and the model was loaded once
C19_Witness ==
  /\ isInitialized
  /\ initCall[1].result = "resolved"
  /\ initCall[2].result = "resolved"
  /\ loadModelCalls = 1

\* C20: model download is mutually exclusive.  While a downloadModel() call
\* is in flight, a second downloadModel() call is rejected with 'Download
\* already in progress' and changes nothing of the first (isDownloadingModel()
\* stays true, the download progress is not reset), so at most one download
\* runs at a time.
C20_DownloadMutuallyExclusive ==
  [][/\ \A d \in DownloadCalls :
          ( /\ \E e \in DownloadCalls : DownloadInFlight(e)
            /\ download[d].pc = "idle"
            /\ download'[d].pc # "idle" ) =>
            /\ download'[d] = [pc |-> "done", i |-> 0, result |-> "rejected",
                               error |-> DownloadInProgressMsg]
            /\ \A e \in DownloadCalls \ {d} : download'[e] = download[e]
            /\ isDownloadingModel /\ isDownloadingModel'
            /\ getDownloadProgress' = getDownloadProgress
            /\ modelFile' = modelFile /\ asyncStorage' = asyncStorage
     /\ Cardinality({d \in DownloadCalls : DownloadInFlight(d)}') <= 1]_vars

\* a second call was rejected while the first was part-way through its
\* progress loop, and the first goes on undisturbed
C20_Witness ==
  /\ download[1].pc = "progress"
  /\ download[1].i >= DownloadStep
  /\ download[2].error = DownloadInProgressMsg
  /\ isDownloadingModel
  /\ getDownloadProgress = download[1].i

\* call k is a job started after the last cancel(): it was accepted, is in
\* flight, and no cancel() was called during it
StartedAfterCancel(k) ==
  call[k].accepted /\ InFlight(k) /\ hist[k].cancelAt = "none"

\* C26: a cancellation is bound to the job it was issued for.  When cancel()
\* was called during a call and a new call was accepted before the cancelled
\* one reached its next checkpoint, the cancelled call still ends cancelled:
\* it returns no text and publishes no further progress; and the new call is
\* not ended as cancelled by the earlier cancel().
C26_CancellationBoundToItsJob ==
  [][\A j \in Calls :
       /\ ( /\ hist[j].cancelAt # "none"
            /\ Steps(j)
            /\ \E k \in Calls \ {j} : StartedAfterCancel(k) ) =>
            /\ call'[j].result.kind # "text"
            /\ hist'[j].pubs = hist[j].pubs
       /\ ( /\ hist[j].cancelAt = "none"
            /\ call[j].accepted
            /\ Settles(j) ) =>
            call'[j].result.message # WasCancelledMsg]_vars

\* isModelLoaded()
isModelLoaded ==
  isInitialized

\* C27: a successful transcription implies the model is available.
\* isModelLoaded() is true only while the model file is available, and a
\* transcribe() call returns a transcription text only if the model file is
\* there, also when an earlier call on the same service had succeeded.
C27_TextOnlyWithModelAvailable ==
  [][/\ isModelLoaded' => modelFile'
     /\ \A j \in Calls :
          (Settles(j) /\ call'[j].result.kind = "text") => modelFile]_vars

\* C21: for any sequence of non-overlapping, successfully completed
\* downloadModel() and deleteModel() calls, isModelAvailable() is true exactly
\* when the last completed call was downloadModel(): a completed download
\* makes the model available and a completed delete makes it unavailable.
C21_AvailableIffLastCallWasDownload ==
  (modelCalls.alone /\ ~ManagerCallInFlight) =>
    /\ modelCalls.last = "downloadModel" => isModelAvailable(FALSE)
    /\ modelCalls.last = "deleteModel" => ~isModelAvailable(FALSE)

\* what getTranscriptions() returns in this state
StoredList == getTranscriptions(storageKeys.transcriptions)

\* slot c holds a call of the operation that resolved
Resolved(c, op) ==
  /\ storageCall[c].op = op
  /\ storageCall[c].pc = "done"
  /\ storageCall[c].result = "resolved"

WithoutId(list, id) ==
  LET Keep(it) == it.id # id
  IN  SelectSeq(list, Keep)

InList(list, id) == \E k \in 1..Len(list) : list[k].id = id

C24_CleanupDateRecorded ==
  (storageLog.last = "clearAllData" /\ ~StorageCallInFlight) =>
    getStorageInfo.lastCleanup # "undefined"

\* C25: after clearAllData() has completed storage is empty and still
\* usable: getTranscriptions() returns the empty list, and a following
\* saveTranscription(x) succeeds and makes getTranscriptions() return [x].
C25_EmptyAndUsableAfterClear ==
  [][/\ (storageLog.alone' /\ storageLog.last' = "clearAllData") =>
          StoredList' = <<>>
     /\ \A c \in StorageCalls :
          ( /\ storageLog.alone /\ storageLog.last = "clearAllData"
            /\ storageCall[c].op = "save"
            /\ storageCall[c].pc = "writing"
            /\ storageCall'[c] # storageCall[c] ) =>
            /\ storageCall'[c].result = "resolved"
            /\ StoredList' = <<storageCall[c].item>>]_vars

\* a stored list was cleared, then an item was saved: it is the list
C25_Witness ==
  /\ storageLog.alone
  /\ saved = <<Item(1), Item(2), Item(1)>>
  /\ Resolved(1, "clear")
  /\ Resolved(2, "save")
  /\ StoredList = <<Item(1)>>

\* C28: no saved transcription is lost to overlapping saves: when two
\* saveTranscription() calls for different items overlap, then after both have
\* completed getTranscriptions() contains both items.
C28_OverlappingSavesKeepBoth ==
  \A c, e \in StorageCalls :
    ( /\ Resolved(c, "save") /\ Resolved(e, "save")
      /\ storageCall[c].item # storageCall[e].item
      /\ \A x \in StorageCalls : storageCall[x].op \in {"none", "save"} ) =>
      /\ \E k \in 1..Len(StoredList) : StoredList[k] = storageCall[c].item
      /\ \E k \in 1..Len(StoredList) : StoredList[k] = storageCall[e].item

====
